---- MODULE Spec2Model ----
(***************************************************************************)
(* Model of the MTA LED sign prediction engine: MTAProvider of             *)
(* src/src/data/mta-provider.ts (dataset load, station listing,            *)
(* getPredictions, getSecondTrain),                                        *)
(* of the application that drives it, MTASimulator of                      *)
(* src/src/renderer/blink-animation.ts (initialize, refresh, the UI event  *)
(* listeners and the refresh interval), and of the renderer, MTARenderer   *)
(* of src/unnamed/part_002 with its BlinkAnimation (render, clear, the     *)
(* frame callbacks).                                                       *)
(*                                                                         *)
(* Conventions.  A nullable TypeScript value is an option: Null is <<>>,   *)
(* a present value v is <<v>>.  JavaScript arrays are 0-based, TLA+        *)
(* sequences 1-based: array index i is sequence position i + 1.  A string  *)
(* that the code searches (trip_id) is a sequence of characters.           *)
(***************************************************************************)
EXTENDS Integers, Sequences, FiniteSets, TLC

VARIABLES
  historicalData,    \* MTAProvider.historicalData : Null | <<[stopId -> records]>>
  stations,          \* MTAProvider.stations : sequence of Station
  childStationIds,   \* MTAProvider.childStationIds : set of stop ids
  lastSecondTrain,   \* MTAProvider.lastSecondTrain : Null | <<TrainTime>>
  loadPc,            \* position of the loadData call in flight
  dataChanged,       \* no getPredictions call was made since a table was assigned
  lastOp,            \* the provider operation performed by the last step
  raised,            \* the call of the last step threw instead of returning
  callStop,          \* getPredictions: stopId argument of the last call
  callDir,           \* getPredictions: direction argument of the last call
  callNow,           \* getPredictions: instant read (new Date()) by the last call
  callRepeats,       \* getPredictions: same arguments, instant and tables as the call before
  afterSecond,       \* getPredictions: the step before was a getSecondTrain that returned an entry
  candidates,        \* getPredictions: the list collected before sorting
  predictions,       \* getPredictions: the returned list
  secondArg,         \* getSecondTrain: the argument of the last call
  prevRank,          \* getSecondTrain: the rank remembered before the last call
  secondTrain,       \* getSecondTrain: the value returned by the last call
  run,               \* ranks returned by consecutive calls on one list
  runFromEmpty,      \* the run began with empty rotation memory
  stationsResult,    \* getStations: the value returned by the last call
  loadStart,         \* loadData: the tables when the call in flight (or the last failed one) began
  loadResult,        \* loadData: how the promise of the last call settled
  memoryWrites,      \* assignments to lastSecondTrain made by the last step
  appPc,             \* MTASimulator: position of initialize()
  rendererPc,        \* MTASimulator: state of the renderer.initialize() promise
  listening,         \* MTASimulator: the UI event listeners are registered
  timerOn,           \* MTASimulator: the refresh interval is started
  currentStation,    \* MTASimulator.currentStation
  currentDirection,  \* MTASimulator.currentDirection
  displayPredictions, \* MTASimulator.refresh: the list handed to renderer.render
  refreshed,         \* MTASimulator: refresh() was called at least once
  waitDeparture,     \* wait computation: departure_time of the record
  waitNow,           \* wait computation: the instant read by the call
  waitResult,        \* wait computation: waitTime after the adjustment
  waitLeft,          \* wait computation: the test waitTime < 0 after it fired
  cyclesAwaiting,    \* MTASimulator: refresh() calls of listeners suspended at renderer.render
  selectionChanged,  \* MTASimulator: the last refresh() followed a change of station or direction
  expressRoute,      \* express classification: route_id of the record
  expressTrip,       \* express classification: trip_id of the record
  expressResult,     \* express classification: the predictions made of the record
  compressedIn,      \* decompression: the compacted document
  decompressedOut,   \* decompression: the records made of it
  blinkAnimation,    \* MTARenderer.blinkAnimation
  animations,        \* the BlinkAnimation objects created, in order of creation
  renders            \* MTARenderer.render calls suspended at renderTrainRow

vars == <<historicalData, stations, childStationIds, lastSecondTrain, loadPc,
          dataChanged, lastOp, raised, callStop, callDir, callNow, callRepeats,
          afterSecond, candidates, predictions, secondArg, prevRank,
          secondTrain, run, runFromEmpty, stationsResult, loadStart,
          loadResult, memoryWrites, appPc, rendererPc, listening, timerOn,
          currentStation, currentDirection, displayPredictions, refreshed,
          waitDeparture, waitNow, waitResult, waitLeft, cyclesAwaiting,
          selectionChanged, expressRoute, expressTrip, expressResult,
          compressedIn, decompressedOut, blinkAnimation, animations, renders>>

providerVars == <<historicalData, stations, childStationIds, lastSecondTrain>>
loadVars == <<loadPc, dataChanged>>
predictVars == <<callStop, callDir, callNow, candidates, predictions>>
rotateVars == <<secondArg, prevRank, secondTrain, run, runFromEmpty>>
waitVars == <<waitDeparture, waitNow, waitResult, waitLeft>>
appVars == <<appPc, rendererPc, listening, timerOn, currentStation,
             currentDirection, displayPredictions, refreshed, cyclesAwaiting,
             selectionChanged>>
expressVars == <<expressRoute, expressTrip, expressResult>>
decompressVars == <<compressedIn, decompressedOut>>
blinkVars == <<blinkAnimation, animations, renders>>

----------------------------------------------------------------------------
(* Options *)

Null == <<>>

Some(v) == <<v>>

Get(o) == o[1]

----------------------------------------------------------------------------
(* Program constants *)

MAX_NUM_PREDICTIONS == 6

\* the station shown when the URL names none, as a stop id of the documents below
DEFAULT_STATION == "P"

SecondsPerDay == 24 * 3600

Horizon == 3600

(* Bounds of the model *)

MaxRun == 11
MaxAwaiting == 2
MaxRenders == 2
MaxAnimations == 2
MaxFrames == 1

\* seconds sampled on each side of the values the wait computation turns on
Spread == 1

----------------------------------------------------------------------------
(* Inputs: the documents served at /historical-data.json and /stations.json *)

Names == <<"Uptown", "Downtown", "Bronx">>

\* [route_id, direction_id, name_index, departure_time, day_type_short]
CompressedFull ==
  [names |-> Names,
   data |->
     [P  |-> << <<"A", "0", 0, 50, "w">>,
                <<"C", "1", 1, 49, "w">>,
                <<"A", "0", 0, 3650, "w">>,
                <<"C", "1", 1, 3651, "w">>,
                <<"B", "0", 0, 50, "s">>,
                <<"B", "1", 2, 0, "s">>,
                <<"B", "0", 0, 50, "x">> >>,
      C1 |-> << <<"B", "0", 1, 50, "w">>,
                <<"D", "1", 0, 100, "w">>,
                <<"7", "1", 1, 50, "u">> >>,
      C2 |-> << <<"D", "0", 2, 50, "w">>,
                <<"B", "1", 1, 100, "w">>,
                <<"4", "0", 0, 60, "w">> >>,
      G  |-> << <<"G", "0", 0, 50, "w">> >>,
      O  |-> << <<"L", "0", 0, 50, "w">> >>]]

CompressedSmall ==
  [names |-> Names,
   data |->
     [P  |-> << <<"A", "0", 0, 50, "w">> >>,
      O  |-> << <<"6", "0", 3, 50, "w">> >>]]

CompressedDocs == {CompressedFull, CompressedSmall}

\* a station record carries the children field only when the document has it
StationsFull ==
  << [stop_id |-> "P", stop_name |-> "Parent", children |-> <<"C1", "C2", "C3">>],
     [stop_id |-> "C1", stop_name |-> "Child one", children |-> <<"G">>],
     [stop_id |-> "C2", stop_name |-> "Child two"],
     [stop_id |-> "G", stop_name |-> "Grandchild"],
     [stop_id |-> "O", stop_name |-> "Other", children |-> <<>>] >>

StationsFlat ==
  << [stop_id |-> "O", stop_name |-> "Other"],
     [stop_id |-> "C2", stop_name |-> "Child two"],
     [stop_id |-> "C1", stop_name |-> "Child one", children |-> <<"G", "O">>] >>

StationDocs == {StationsFull, StationsFlat}

\* a topology with a station that lists itself and a cycle through two lists
StationsCyclic ==
  << [stop_id |-> "P", stop_name |-> "Parent", children |-> <<"P">>],
     [stop_id |-> "C1", stop_name |-> "Child one", children |-> <<"C2">>],
     [stop_id |-> "C2", stop_name |-> "Child two", children |-> <<"C1">>] >>

\* the station documents of the specification with failing loads
StationDocsLoad == StationDocs \cup {StationsCyclic}

\* stop ids a caller asks for; "Z" is in no document
StopIds == {"P", "C1", "Z"}

\* stop ids as the station parameter of the URL may give them: those above,
\* and a name that every object has a member of
StopIdsOfURL == StopIds \cup {"constructor"}

\* direction arguments: null, 0 (uptown), 1 (downtown)
Directions == {Null, Some(0), Some(1)}

\* instants: day of the week (Date.getDay) and local time of day
Instants ==
  { [day |-> 1, hours |-> 0, minutes |-> 0, seconds |-> 50],
    [day |-> 6, hours |-> 23, minutes |-> 59, seconds |-> 59],
    [day |-> 0, hours |-> 0, minutes |-> 0, seconds |-> 50] }

\* route ids and trip ids (as sequences of characters) of a record
ExpressRoutes == {"4", "6", "5", "7", "A", "46", "X", "6X"}

ExpressTrips ==
  { <<>>,
    <<"t", "1", "_", "E", "X", "P", "R", "E", "S", "S">>,
    <<"t", "1", "_", "X">>,
    <<"_", "X">>,
    <<"E", "X", "P", "R", "E", "S", "S">>,
    <<"X", "_">>,
    <<"_", "x">>,
    <<"e", "x", "p", "r", "e", "s", "s">>,
    <<"E", "X", "P", "R", "E", "S">>,
    <<"_">>,
    <<"X">>,
    <<"A", "E", "X", "P", "R", "E", "S", "S", "B">>,
    <<"t", "_", "X", "y">>,
    <<"_", "E", "X", "P", "R", "E", "S", "_", "S">> }

\* day codes of a compacted tuple: the three of the format, codes of a later
\* format, the empty code, and a code that names a member of every object
DayCodes == {"w", "s", "u", "x", "W", "weekday", "", "constructor"}

\* compacted tuples: route, direction, index into the name table (3 is out of
\* range), departure time, day code
CompactTuples ==
  { <<"A", d, n, 50, c>> : d \in {"0", "1"}, n \in {0, 3}, c \in DayCodes }

\* compacted documents of two stops, and of a stop without tuples
CompactDocs ==
  { [names |-> Names, data |-> [P |-> <<t1, t2>>, O |-> <<t2>>]] :
      t1 \in CompactTuples, t2 \in CompactTuples }
  \cup { [names |-> Names, data |-> [P |-> <<>>, O |-> <<t>>]] : t \in CompactTuples }

\* the instants of Instants that fall on a weekday
WeekdayInstants == { date \in Instants : date.day \in 1..5 }

----------------------------------------------------------------------------
(* Types of src/src/data/types.ts *)

DayType == [WEEKDAY |-> "weekday", SATURDAY |-> "saturday", SUNDAY |-> "sunday"]


Undefined == "undefined"

Min(a, b) == IF a < b THEN a ELSE b

\* String.prototype.includes on a string held as a sequence of characters
Includes(str, pat) ==
  \E k \in 0..(Len(str) - Len(pat)) : SubSeq(str, k + 1, k + Len(pat)) = pat

----------------------------------------------------------------------------
(* Dataset store *)

\* names of members of Object.prototype, which the object literal dayTypeMap
\* inherits, and the member found under such a name (a function, which is
\* not a string and is truthy)
ObjectPrototypeKeys == {"constructor", "toString", "valueOf", "hasOwnProperty"}

inheritedMember(key) ==
  CASE key = "constructor" -> "function Object"
    [] key = "toString" -> "function toString"
    [] key = "valueOf" -> "function valueOf"
    [] key = "hasOwnProperty" -> "function hasOwnProperty"

\* dayTypeMap[entry[4]] || entry[4]
dayTypeMap(code) ==
  CASE code = "w" -> DayType.WEEKDAY
    [] code = "s" -> DayType.SATURDAY
    [] code = "u" -> DayType.SUNDAY
    [] code \in ObjectPrototypeKeys -> inheritedMember(code)
    [] OTHER -> code

\* compressed.names[entry[2]]
nameAt(names, index) ==
  IF index + 1 \in DOMAIN names THEN names[index + 1] ELSE Undefined

decompressEntry(names, entry) ==
  [route_id |-> entry[1],
   direction_id |-> entry[2],
   long_name |-> nameAt(names, entry[3]),
   departure_time |-> entry[4],
   trip_id |-> <<>>,
   day_type |-> dayTypeMap(entry[5])]

decompressHistoricalData(compressed) ==
  [stopId \in DOMAIN compressed.data |->
     [i \in 1..Len(compressed.data[stopId]) |->
        decompressEntry(compressed.names, compressed.data[stopId][i])]]

hasChildren(station) == "children" \in DOMAIN station

\* buildChildStationSet without the childStationIds.clear()
buildChildStationSetNoClear(stationList) ==
  childStationIds \cup
    UNION { { stationList[i].children[j] : j \in 1..Len(stationList[i].children) } :
              i \in { k \in 1..Len(stationList) : hasChildren(stationList[k]) } }

\* childStationIds.clear(), then every child id of every station is added
buildChildStationSet(stationList) ==
  UNION { { stationList[i].children[j] : j \in 1..Len(stationList[i].children) } :
            i \in { k \in 1..Len(stationList) : hasChildren(stationList[k]) } }

getStations ==
  SelectSeq(stations, LAMBDA station : station.stop_id \notin childStationIds)

getStation(stopId) ==
  LET found == { i \in 1..Len(stations) : stations[i].stop_id = stopId }
  IN IF found = {} THEN Null
     ELSE Some(stations[CHOOSE i \in found : \A j \in found : i <= j])

----------------------------------------------------------------------------
(* Time/day classifier *)

getDayType(date) ==
  IF date.day = 0 THEN DayType.SUNDAY
  ELSE IF date.day = 6 THEN DayType.SATURDAY
  ELSE DayType.WEEKDAY

getSecondsFromMidnight(date) ==
  date.hours * 3600 + date.minutes * 60 + date.seconds

\* isExpressTrain decided by the trip id alone
isExpressTrainAnyRoute(routeId, tripId) ==
  Includes(tripId, <<"_", "X">>)
  \/ Includes(tripId, <<"E", "X", "P", "R", "E", "S", "S">>)

\* isExpressTrain decided by the route alone
isExpressTrainRouteOnly(routeId, tripId) ==
  ~(routeId # "4" /\ routeId # "6")

isExpressTrain(routeId, tripId) ==
  IF routeId # "4" /\ routeId # "6" THEN FALSE
  ELSE Includes(tripId, <<"_", "X">>)
       \/ Includes(tripId, <<"E", "X", "P", "R", "E", "S", "S">>)

----------------------------------------------------------------------------
(* Prediction engine *)

\* direction.toString()
toString(n) == CASE n = 0 -> "0" [] n = 1 -> "1" [] OTHER -> "NaN"

\* stationIdsToCheck that also descends into the children of the children
stationIdsToCheckDeep(stopId) ==
  LET childrenOf(id) ==
        LET st == getStation(id)
        IN IF st # Null /\ hasChildren(Get(st)) THEN Get(st).children ELSE <<>>
      direct == childrenOf(stopId)
      grand[k \in 0..Len(direct)] ==
        IF k = 0 THEN <<>> ELSE grand[k - 1] \o childrenOf(direct[k])
  IN <<stopId>> \o direct \o grand[Len(direct)]

\* [stopId], followed by station.children when the station has them
stationIdsToCheck(stopId) ==
  LET station == getStation(stopId)
  IN IF station # Null /\ hasChildren(Get(station))
     THEN <<stopId>> \o Get(station).children
     ELSE <<stopId>>

\* waitTimeOf with the adjustment made for waitTime <= 0
waitTimeOfWrapOnZero(histTime, currentSecondsFromMidnight) ==
  LET waitTime == histTime.departure_time - currentSecondsFromMidnight
  IN IF waitTime <= 0 THEN waitTime + 24 * 3600 ELSE waitTime

\* histTime.departure_time - currentSecondsFromMidnight, wrapped past midnight
waitTimeOf(histTime, currentSecondsFromMidnight) ==
  LET waitTime == histTime.departure_time - currentSecondsFromMidnight
  IN IF waitTime < 0 THEN waitTime + 24 * 3600 ELSE waitTime

\* passesFilters with the day test skipped for a departure before the instant
passesFiltersAnyDayOnWrap(histTime, direction, currentDayType, currentSecondsFromMidnight) ==
  LET waitTime == waitTimeOf(histTime, currentSecondsFromMidnight)
  IN /\ ~(histTime.departure_time >= currentSecondsFromMidnight
           /\ histTime.day_type # currentDayType)
     /\ ~(direction # Null /\ histTime.direction_id # toString(Get(direction)))
     /\ ~(waitTime > 3600)
     /\ ~(waitTime < 0)

\* passesFilters with the direction test written as a truthiness test
passesFiltersFalsyDirection(histTime, direction, currentDayType, currentSecondsFromMidnight) ==
  LET waitTime == waitTimeOf(histTime, currentSecondsFromMidnight)
  IN /\ ~(histTime.day_type # currentDayType)
     /\ ~(direction # Null /\ Get(direction) # 0
           /\ histTime.direction_id # toString(Get(direction)))
     /\ ~(waitTime > 3600)
     /\ ~(waitTime < 0)

\* passesFilters with the horizon test written as waitTime >= 3600
passesFiltersStrictHorizon(histTime, direction, currentDayType, currentSecondsFromMidnight) ==
  LET waitTime == waitTimeOf(histTime, currentSecondsFromMidnight)
  IN /\ ~(histTime.day_type # currentDayType)
     /\ ~(direction # Null /\ histTime.direction_id # toString(Get(direction)))
     /\ ~(waitTime >= 3600)
     /\ ~(waitTime < 0)

\* the record is not skipped by one of the loop's continue statements
passesFilters(histTime, direction, currentDayType, currentSecondsFromMidnight) ==
  LET waitTime == waitTimeOf(histTime, currentSecondsFromMidnight)
  IN /\ ~(histTime.day_type # currentDayType)
     /\ ~(direction # Null /\ histTime.direction_id # toString(Get(direction)))
     /\ ~(waitTime > 3600)
     /\ ~(waitTime < 0)

\* the test on trains that have already left, made after the adjustment
alreadyLeft(waitTime) == waitTime < 0

toTrainTime(histTime, currentSecondsFromMidnight) ==
  [route_id |-> histTime.route_id,
   direction_id |-> histTime.direction_id,
   long_name |-> histTime.long_name,
   time |-> waitTimeOf(histTime, currentSecondsFromMidnight),
   display_order |-> 0,
   trip_id |-> histTime.trip_id,
   is_express |-> isExpressTrain(histTime.route_id, histTime.trip_id)]

RECURSIVE collectTimes(_, _, _, _)
collectTimes(historicalTimes, direction, currentDayType, secs) ==
  IF historicalTimes = <<>> THEN <<>>
  ELSE LET histTime == Head(historicalTimes)
           rest == collectTimes(Tail(historicalTimes), direction, currentDayType, secs)
       IN IF passesFilters(histTime, direction, currentDayType, secs)
          THEN <<toTrainTime(histTime, secs)>> \o rest
          ELSE rest

\* a member the store, an object literal filled by decompressHistoricalData,
\* inherits from Object.prototype: a pair, where the records of a stop are
\* Some(records)
Inherited(key) == <<"inherited", inheritedMember(key)>>

\* this.historicalData[stationId]: the records of the stop, the inherited
\* member of that name, or undefined (Null)
lookupTimes(stationId) ==
  IF stationId \in DOMAIN Get(historicalData)
  THEN Some(Get(historicalData)[stationId])
  ELSE IF stationId \in ObjectPrototypeKeys THEN Inherited(stationId)
  ELSE Null

\* the value is an array
iterable(historicalTimes) == Len(historicalTimes) = 1

\* for (const histTime of historicalTimes): iterating undefined or a function
\* throws
forOfTimes(historicalTimes, direction, currentDayType, secs) ==
  IF ~iterable(historicalTimes) THEN [raised |-> TRUE, list |-> <<>>]
  ELSE [raised |-> FALSE,
        list |-> collectTimes(Get(historicalTimes), direction, currentDayType, secs)]

\* the loop over stationIdsToCheck without its `if (!historicalTimes) continue`
RECURSIVE collectStationsNoSkip(_, _, _, _)
collectStationsNoSkip(stationIds, direction, currentDayType, secs) ==
  IF stationIds = <<>> THEN [raised |-> FALSE, list |-> <<>>]
  ELSE LET historicalTimes == lookupTimes(Head(stationIds))
           first == forOfTimes(historicalTimes, direction, currentDayType, secs)
           rest == collectStationsNoSkip(Tail(stationIds), direction, currentDayType, secs)
       IN IF first.raised THEN first
          ELSE [raised |-> rest.raised, list |-> first.list \o rest.list]

\* the loop over stationIdsToCheck; a throw ends it
RECURSIVE collectStations(_, _, _, _)
collectStations(stationIds, direction, currentDayType, secs) ==
  IF stationIds = <<>> THEN [raised |-> FALSE, list |-> <<>>]
  ELSE LET historicalTimes == lookupTimes(Head(stationIds))
           rest == collectStations(Tail(stationIds), direction, currentDayType, secs)
       IN IF historicalTimes = Null THEN rest
          ELSE LET first == forOfTimes(historicalTimes, direction, currentDayType, secs)
               IN IF first.raised THEN first
                  ELSE [raised |-> rest.raised, list |-> first.list \o rest.list]

\* collectPredictions without the early return taken when no data is loaded
collectPredictionsNoNullGuard(stopId, direction, date) ==
  IF historicalData = Null THEN [raised |-> TRUE, list |-> <<>>]
  ELSE collectStations(stationIdsToCheck(stopId), direction,
                       getDayType(date), getSecondsFromMidnight(date))

\* the predictions array before the sort (empty when no data is loaded)
collectPredictions(stopId, direction, date) ==
  IF historicalData = Null THEN [raised |-> FALSE, list |-> <<>>]
  ELSE collectStations(stationIdsToCheck(stopId), direction,
                       getDayType(date), getSecondsFromMidnight(date))

\* insertByTime with p placed before the entries of equal time
insertByTimeBeforeEqual(sorted, p) ==
  LET before == { i \in 1..Len(sorted) : sorted[i].time - p.time < 0 }
      k == Cardinality(before)
  IN SubSeq(sorted, 1, k) \o <<p>> \o SubSeq(sorted, k + 1, Len(sorted))

\* one step of the stable sort: p goes after every entry that is not later
insertByTime(sorted, p) ==
  LET before == { i \in 1..Len(sorted) : sorted[i].time - p.time <= 0 }
      k == Cardinality(before)
  IN SubSeq(sorted, 1, k) \o <<p>> \o SubSeq(sorted, k + 1, Len(sorted))

\* predictions.sort((a, b) => a.time - b.time)
RECURSIVE sortByTime(_)
sortByTime(list) ==
  IF list = <<>> THEN <<>>
  ELSE insertByTime(sortByTime(SubSeq(list, 1, Len(list) - 1)), list[Len(list)])

\* predictions.forEach((p, i) => { p.display_order = i })
assignDisplayOrder(list) ==
  [i \in 1..Len(list) |-> [list[i] EXCEPT !.display_order = i - 1]]

\* predictions.slice(0, MAX_NUM_PREDICTIONS)
slice(list, count) == SubSeq(list, 1, Min(Len(list), count))

\* getPredictions leaving out the train remembered for the second slot
getPredictionsHidingShown(stopId, direction, date) ==
  LET collected == collectPredictions(stopId, direction, date)
      shown(p) == lastSecondTrain # Null /\ p.route_id = Get(lastSecondTrain).route_id
                    /\ p.time = Get(lastSecondTrain).time
  IN [raised |-> collected.raised,
      collected |-> collected.list,
      list |-> slice(assignDisplayOrder(sortByTime(
                 SelectSeq(collected.list, LAMBDA p : ~shown(p)))),
               MAX_NUM_PREDICTIONS)]

\* getPredictions with the list truncated before it is sorted
getPredictionsSliceFirst(stopId, direction, date) ==
  LET collected == collectPredictions(stopId, direction, date)
  IN [raised |-> collected.raised,
      collected |-> collected.list,
      list |-> assignDisplayOrder(sortByTime(slice(collected.list,
                                                   MAX_NUM_PREDICTIONS)))]

\* returns whether the call threw, the predictions array as collected before
\* the sort and, when the call did not throw, the returned list
getPredictions(stopId, direction, date) ==
  LET collected == collectPredictions(stopId, direction, date)
  IN [raised |-> collected.raised,
      collected |-> collected.list,
      list |-> slice(assignDisplayOrder(sortByTime(collected.list)),
                     MAX_NUM_PREDICTIONS)]

\* getPredictions pushing the dataset records themselves, so that the rank
\* assigned after the sort is written into the records of the stop
storeAfterSharingRecords(stopId, direction, date) ==
  LET secs == getSecondsFromMidnight(date)
      day == getDayType(date)
      ranked(r) == [f \in DOMAIN r \cup {"display_order"} |->
                      IF f = "display_order" THEN 0 ELSE r[f]]
      written(list) ==
        [k \in 1..Len(list) |->
           IF passesFilters(list[k], direction, day, secs) THEN ranked(list[k])
           ELSE list[k]]
      data == Get(historicalData)
  IN [historicalData |->
        IF historicalData = Null THEN Null
        ELSE Some([id \in DOMAIN data |->
                     IF id = stopId THEN written(data[id]) ELSE data[id]]),
      stations |-> stations,
      childStationIds |-> childStationIds,
      lastSecondTrain |-> lastSecondTrain]

\* the fields of the provider after a getPredictions call: the call assigns
\* to none of them, and the entries it sorts and ranks are objects it built
\* itself from the fields of the dataset records
storeAfterGetPredictions(stopId, direction, date) ==
  [historicalData |-> historicalData,
   stations |-> stations,
   childStationIds |-> childStationIds,
   lastSecondTrain |-> lastSecondTrain]

----------------------------------------------------------------------------
(* Rotation selector *)

\* nextIndex wrapping back to the first train
nextIndexWrapToFirst(i, length) ==
  LET nextId == i + 1 IN IF nextId >= length THEN 0 ELSE nextId

\* nextIndex wrapping one entry early
nextIndexWrapEarly(i, length) ==
  LET nextId == i + 1 IN IF nextId >= length - 1 THEN 1 ELSE nextId

\* nextIndex stepping over one entry
nextIndexSkip(i, length) ==
  LET nextId == i + 2 IN IF nextId >= length THEN 1 ELSE nextId

\* the index chosen after the remembered entry was found at index i
nextIndex(i, length) ==
  LET nextId == i + 1 IN IF nextId >= length THEN 1 ELSE nextId

\* getSecondTrain forgetting the remembered train on a call it cannot serve
getSecondTrainForgetting(arg, last) ==
  IF arg = Null \/ Len(Get(arg)) < 2
  THEN [raised |-> FALSE, result |-> Null, last |-> Null, writes |-> 1]
  ELSE LET list == Get(arg)
           found == IF last = Null THEN {}
                    ELSE { i \in 0..(Len(list) - 1) :
                             list[i + 1].display_order = Get(last).display_order }
           chosen == IF last = Null \/ found = {} THEN list[2]
                     ELSE LET i == CHOOSE i \in found : \A j \in found : i <= j
                          IN list[nextIndex(i, Len(list)) + 1]
       IN [raised |-> FALSE, result |-> Some(chosen), last |-> Some(chosen),
           writes |-> 1]

\* getSecondTrain without the assignment of the fallback taken when the
\* remembered entry is not found
getSecondTrainFallbackNotRemembered(arg, last) ==
  IF arg = Null \/ Len(Get(arg)) < 2
  THEN [raised |-> FALSE, result |-> Null, last |-> last, writes |-> 0]
  ELSE LET list == Get(arg)
           found == IF last = Null THEN {}
                    ELSE { i \in 0..(Len(list) - 1) :
                             list[i + 1].display_order = Get(last).display_order }
           chosen == IF last = Null \/ found = {} THEN list[2]
                     ELSE LET i == CHOOSE i \in found : \A j \in found : i <= j
                          IN list[nextIndex(i, Len(list)) + 1]
       IN IF last # Null /\ found = {}
          THEN [raised |-> FALSE, result |-> Some(chosen), last |-> last,
                writes |-> 0]
          ELSE [raised |-> FALSE, result |-> Some(chosen), last |-> Some(chosen),
                writes |-> 1]

\* getSecondTrain returning predictions[1] on the first call without
\* remembering it
getSecondTrainNotRemembering(arg, last) ==
  IF arg = Null \/ Len(Get(arg)) < 2
  THEN [raised |-> FALSE, result |-> Null, last |-> last, writes |-> 0]
  ELSE LET list == Get(arg)
           found == IF last = Null THEN {}
                    ELSE { i \in 0..(Len(list) - 1) :
                             list[i + 1].display_order = Get(last).display_order }
           chosen == IF last = Null \/ found = {} THEN list[2]
                     ELSE LET i == CHOOSE i \in found : \A j \in found : i <= j
                          IN list[nextIndex(i, Len(list)) + 1]
       IN IF last = Null
          THEN [raised |-> FALSE, result |-> Some(chosen), last |-> last,
                writes |-> 0]
          ELSE [raised |-> FALSE, result |-> Some(chosen), last |-> Some(chosen),
                writes |-> 1]

\* returns whether the call threw, the value returned, the new value of
\* lastSecondTrain and the number of assignments made to it
getSecondTrain(arg, last) ==
  IF arg = Null \/ Len(Get(arg)) < 2
  THEN [raised |-> FALSE, result |-> Null, last |-> last, writes |-> 0]
  ELSE LET list == Get(arg)
           found == IF last = Null THEN {}
                    ELSE { i \in 0..(Len(list) - 1) :
                             list[i + 1].display_order = Get(last).display_order }
           chosen == IF last = Null \/ found = {} THEN list[2]
                     ELSE LET i == CHOOSE i \in found : \A j \in found : i <= j
                          IN list[nextIndex(i, Len(list)) + 1]
       IN [raised |-> FALSE, result |-> Some(chosen), last |-> Some(chosen),
           writes |-> 1]

----------------------------------------------------------------------------
(* Application: MTASimulator.refresh *)

\* the rotation step of refresh: getSecondTrain is called when the list is
\* not empty.  last is lastSecondTrain before the step.
\* the rotation step of a cycle that began while another cycle awaits its
\* render, with its assignment to the memory lost
rotationStepLostOnOverlap(list, last) ==
  IF Len(list) > 0
  THEN IF appPc = "rendering" \/ cyclesAwaiting > 0
       THEN [called |-> TRUE, raised |-> FALSE,
             result |-> getSecondTrain(Some(list), last).result,
             last |-> last, writes |-> 0]
       ELSE [called |-> TRUE] @@ getSecondTrain(Some(list), last)
  ELSE [called |-> FALSE, raised |-> FALSE, result |-> Null, last |-> last,
        writes |-> 0]

\* the rotation step with a memory of its own for every station and direction
rotationStepPerSelection(list, last) ==
  IF Len(list) > 0
  THEN [called |-> TRUE]
         @@ getSecondTrain(Some(list),
                           IF <<currentStation', currentDirection'>>
                                # <<currentStation, currentDirection>>
                           THEN Null ELSE last)
  ELSE [called |-> FALSE, raised |-> FALSE, result |-> Null, last |-> last,
        writes |-> 0]

rotationStep(list, last) ==
  IF Len(list) > 0
  THEN [called |-> TRUE] @@ getSecondTrain(Some(list), last)
  ELSE [called |-> FALSE, raised |-> FALSE, result |-> Null, last |-> last,
        writes |-> 0]

\* displayPredictionsOf pushing the second train before the first
displayPredictionsSecondFirst(list, second) ==
  IF Len(list) > 0
  THEN (IF second # Null THEN <<Get(second)>> ELSE <<>>) \o <<list[1]>>
  ELSE <<>>

\* the list refresh hands to renderer.render: for a non-empty prediction
\* list its first entry, then the entry getSecondTrain returned, if any
displayPredictionsOf(list, second) ==
  IF Len(list) > 0
  THEN <<list[1]>> \o (IF second # Null THEN <<Get(second)>> ELSE <<>>)
  ELSE <<>>

----------------------------------------------------------------------------
(* State machine *)

\* the remembered rank: lastSecondTrain.display_order
rankOf(last) == IF last = Null THEN Null ELSE Some(Get(last).display_order)

Ops == {"init", "loadData", "loadHistorical", "loadStations", "loadFailed",
        "getStations", "getPredictions", "getSecondTrain", "initialize",
        "rendererInitialize", "initializeFailed", "renderSettled", "refresh",
        "cycleSettled"}

\* the state after construction, but for the inputs of the wait computation
InitProvider ==
  /\ historicalData = Null
  /\ stations = <<>>
  /\ childStationIds = {}
  /\ lastSecondTrain = Null
  /\ loadPc = "idle"
  /\ dataChanged = TRUE
  /\ lastOp = "init"
  /\ raised = FALSE
  /\ callStop = "P"
  /\ callDir = Null
  /\ callNow = [day |-> 1, hours |-> 0, minutes |-> 0, seconds |-> 50]
  /\ callRepeats = FALSE
  /\ afterSecond = FALSE
  /\ candidates = <<>>
  /\ predictions = <<>>
  /\ secondArg = Null
  /\ prevRank = Null
  /\ secondTrain = Null
  /\ run = <<>>
  /\ runFromEmpty = TRUE
  /\ stationsResult = <<>>
  /\ loadStart = Null
  /\ loadResult = "none"
  /\ memoryWrites = 0
  /\ appPc = "start"
  /\ rendererPc = "idle"
  /\ listening = FALSE
  /\ timerOn = FALSE
  /\ currentStation = DEFAULT_STATION
  /\ currentDirection = Null
  /\ displayPredictions = <<>>
  /\ refreshed = FALSE
  /\ waitResult = Null
  /\ waitLeft = FALSE
  /\ cyclesAwaiting = 0
  /\ selectionChanged = FALSE
  /\ expressResult = Null
  /\ decompressedOut = Null
  /\ blinkAnimation = Null
  /\ animations = <<>>
  /\ renders = <<>>

\* no record is given to the wait computation, the express classification or
\* the decompression on their own
NoWaitInput ==
  /\ waitDeparture = 0
  /\ waitNow = [day |-> 1, hours |-> 0, minutes |-> 0, seconds |-> 0]

NoExpressInput == expressRoute = "" /\ expressTrip = <<>>

NoDecompressInput == compressedIn = [names |-> <<>>, data |-> <<>>]

Init ==
  /\ InitProvider
  /\ NoWaitInput
  /\ NoExpressInput
  /\ NoDecompressInput

\* what the record of the last getSecondTrain / getStations call becomes when
\* another operation is the last one
ForgetSecond == secondArg' = Null /\ prevRank' = Null /\ secondTrain' = Null

ForgetStations == stationsResult' = <<>>

ForgetRepeat == callRepeats' = FALSE /\ afterSecond' = FALSE

\* the tables a failed load is compared with are kept until the next call
ForgetLoadStart == loadStart' = IF loadPc = "idle" THEN Null ELSE loadStart

\* the tables of the store
tables == <<historicalData, stations, childStationIds>>

\* loadData with the rotation memory cleared at the call
LoadDataResetting ==
  /\ loadPc = "idle"
  /\ loadPc' = "awaitHistorical"
  /\ lastOp' = "loadData"
  /\ raised' = FALSE
  /\ loadStart' = Some(tables)
  /\ loadResult' = "none"
  /\ memoryWrites' = 0
  /\ UNCHANGED <<waitVars, expressVars, decompressVars, blinkVars>>
  /\ ForgetSecond /\ ForgetStations /\ ForgetRepeat
  /\ lastSecondTrain' = Null
  /\ UNCHANGED <<historicalData, stations, childStationIds, dataChanged,
                 predictVars, run, runFromEmpty, appVars>>

\* loadData is called: the fetch of /historical-data.json is issued
LoadData ==
  /\ loadPc = "idle"
  /\ loadPc' = "awaitHistorical"
  /\ lastOp' = "loadData"
  /\ raised' = FALSE
  /\ loadStart' = Some(tables)
  /\ loadResult' = "none"
  /\ memoryWrites' = 0
  /\ UNCHANGED <<waitVars, expressVars, decompressVars, blinkVars>>
  /\ ForgetSecond /\ ForgetStations /\ ForgetRepeat
  /\ UNCHANGED <<providerVars, dataChanged, predictVars, run, runFromEmpty,
                 appVars>>

\* the historical document arrives: it is decompressed and stored, and the
\* fetch of /stations.json is issued
LoadHistorical(compressed) ==
  /\ loadPc = "awaitHistorical"
  /\ historicalData' = Some(decompressHistoricalData(compressed))
  /\ loadPc' = "awaitStations"
  /\ dataChanged' = TRUE
  /\ lastOp' = "loadHistorical"
  /\ raised' = FALSE
  /\ ForgetSecond /\ ForgetStations /\ ForgetRepeat
  /\ memoryWrites' = 0
  /\ UNCHANGED <<waitVars, expressVars, decompressVars, blinkVars>>
  /\ UNCHANGED <<stations, childStationIds, lastSecondTrain, predictVars, run,
                 runFromEmpty, loadStart, loadResult, appVars>>

\* the station document arrives: it is stored and the child set is rebuilt
LoadStations(stationList) ==
  /\ loadPc = "awaitStations"
  /\ stations' = stationList
  /\ childStationIds' = buildChildStationSet(stationList)
  /\ loadPc' = "idle"
  /\ dataChanged' = TRUE
  /\ lastOp' = "loadStations"
  /\ raised' = FALSE
  /\ ForgetSecond /\ ForgetStations /\ ForgetRepeat
  /\ loadStart' = Null
  /\ loadResult' = "resolved"
  /\ memoryWrites' = 0
  /\ UNCHANGED <<waitVars, expressVars, decompressVars, blinkVars>>
  /\ UNCHANGED <<historicalData, lastSecondTrain, predictVars, run,
                 runFromEmpty, appVars>>

\* the fetch of /historical-data.json rejects, its body is not JSON, or the
\* decompression throws: loadData rejects before any assignment
LoadHistoricalFail ==
  /\ loadPc = "awaitHistorical"
  /\ loadPc' = "idle"
  /\ loadResult' = "rejected"
  /\ lastOp' = "loadFailed"
  /\ raised' = TRUE
  /\ memoryWrites' = 0
  /\ UNCHANGED <<waitVars, expressVars, decompressVars, blinkVars>>
  /\ ForgetSecond /\ ForgetStations /\ ForgetRepeat
  /\ UNCHANGED <<providerVars, dataChanged, predictVars, run, runFromEmpty,
                 loadStart, appVars>>

\* the fetch of /stations.json rejects or its body is not JSON: loadData
\* rejects after the assignment of historicalData
LoadStationsFail ==
  /\ loadPc = "awaitStations"
  /\ loadPc' = "idle"
  /\ loadResult' = "rejected"
  /\ lastOp' = "loadFailed"
  /\ raised' = TRUE
  /\ memoryWrites' = 0
  /\ UNCHANGED <<waitVars, expressVars, decompressVars, blinkVars>>
  /\ ForgetSecond /\ ForgetStations /\ ForgetRepeat
  /\ UNCHANGED <<providerVars, dataChanged, predictVars, run, runFromEmpty,
                 loadStart, appVars>>

GetStations ==
  /\ stationsResult' = getStations
  /\ lastOp' = "getStations"
  /\ raised' = FALSE
  /\ memoryWrites' = 0
  /\ UNCHANGED <<waitVars, expressVars, decompressVars, blinkVars>>
  /\ ForgetSecond /\ ForgetRepeat /\ ForgetLoadStart
  /\ UNCHANGED <<providerVars, loadVars, predictVars, run, runFromEmpty,
                 loadResult, appVars>>

\* date is the instant new Date() returns inside the call; a call that throws
\* returns nothing, and the caller keeps the list it had
GetPredictions(stopId, direction, date) ==
  \E outcome \in {getPredictions(stopId, direction, date)} :
  LET result == IF outcome.raised THEN predictions ELSE outcome.list
      store == storeAfterGetPredictions(stopId, direction, date)
  IN /\ callStop' = stopId
     /\ callDir' = direction
     /\ callNow' = date
     /\ dataChanged' = FALSE
     /\ callRepeats' = (~dataChanged /\ stopId = callStop /\ direction = callDir
                          /\ date = callNow)
     /\ afterSecond' = (lastOp = "getSecondTrain" /\ secondTrain # Null)
     /\ candidates' = IF outcome.raised THEN candidates ELSE outcome.collected
     /\ predictions' = result
     /\ raised' = outcome.raised
     /\ run' = IF result = predictions THEN run ELSE <<>>
     /\ runFromEmpty' = IF result = predictions THEN runFromEmpty
                        ELSE lastSecondTrain = Null
     /\ lastOp' = "getPredictions"
     /\ memoryWrites' = 0
     /\ UNCHANGED <<waitVars, expressVars, decompressVars, blinkVars>>
     /\ ForgetSecond /\ ForgetStations /\ ForgetLoadStart
     /\ historicalData' = store.historicalData
     /\ stations' = store.stations
     /\ childStationIds' = store.childStationIds
     /\ lastSecondTrain' = store.lastSecondTrain
     /\ UNCHANGED <<loadPc, loadResult, appVars>>

\* run records the ranks handed out on one unchanged list since the rotation
\* memory was empty, up to MaxRun of them
GetSecondTrain(arg) ==
  \E outcome \in {getSecondTrain(arg, lastSecondTrain)} :
     /\ lastSecondTrain' = outcome.last
     /\ secondArg' = arg
     /\ prevRank' = rankOf(lastSecondTrain)
     /\ secondTrain' = outcome.result
     /\ run' = IF outcome.result = Null \/ ~runFromEmpty \/ Len(run) >= MaxRun
               THEN run
               ELSE Append(run, Get(outcome.result).display_order)
     /\ lastOp' = "getSecondTrain"
     /\ raised' = outcome.raised
     /\ memoryWrites' = outcome.writes
     /\ UNCHANGED <<waitVars, expressVars, decompressVars, blinkVars>>
     /\ ForgetStations /\ ForgetRepeat /\ ForgetLoadStart
     /\ UNCHANGED <<historicalData, stations, childStationIds, loadVars,
                    predictVars, runFromEmpty, loadResult, appVars>>

----------------------------------------------------------------------------
(* Application: MTASimulator *)

\* Promise.all settling on the first of the two promises
initializeMayResumeRace == loadResult = "resolved" \/ rendererPc = "ready"

\* await Promise.all([provider.loadData(), renderer.initialize()]) resolves
initializeMayResume == loadResult = "resolved" /\ rendererPc = "ready"

\* await Promise.all([...]) rejects
initializeMayFail == loadResult = "rejected" \/ rendererPc = "failed"

\* the constructor and initialize() up to its await: the station is taken
\* from the URL or is the default, loadData and renderer.initialize are called
Initialize(urlStation) ==
  /\ appPc = "start"
  /\ appPc' = "loading"
  /\ currentStation' = IF urlStation = Null THEN DEFAULT_STATION
                       ELSE Get(urlStation)
  /\ loadPc = "idle"
  /\ loadPc' = "awaitHistorical"
  /\ loadStart' = Some(tables)
  /\ loadResult' = "none"
  /\ rendererPc' = "pending"
  /\ lastOp' = "initialize"
  /\ raised' = FALSE
  /\ memoryWrites' = 0
  /\ UNCHANGED <<waitVars, expressVars, decompressVars, blinkVars>>
  /\ ForgetSecond /\ ForgetStations /\ ForgetRepeat
  /\ UNCHANGED <<providerVars, dataChanged, predictVars, run, runFromEmpty,
                 listening, timerOn, currentDirection, displayPredictions,
                 refreshed, cyclesAwaiting, selectionChanged>>

\* renderer.initialize() settles: fonts and icons are loaded, or one is not
RendererInitialized(ok) ==
  /\ rendererPc = "pending"
  /\ rendererPc' = IF ok THEN "ready" ELSE "failed"
  /\ lastOp' = "rendererInitialize"
  /\ raised' = ~ok
  /\ memoryWrites' = 0
  /\ UNCHANGED <<waitVars, expressVars, decompressVars, blinkVars>>
  /\ ForgetSecond /\ ForgetStations /\ ForgetRepeat
  /\ UNCHANGED <<providerVars, loadVars, predictVars, run, runFromEmpty,
                 loadStart, loadResult, appPc, listening, timerOn,
                 currentStation, currentDirection, displayPredictions,
                 refreshed, cyclesAwaiting, selectionChanged>>

\* initialize() throws at its await and the DOMContentLoaded handler reports
\* the error
InitializeFail ==
  /\ appPc = "loading"
  /\ initializeMayFail
  /\ appPc' = "failed"
  /\ lastOp' = "initializeFailed"
  /\ raised' = TRUE
  /\ memoryWrites' = 0
  /\ UNCHANGED <<waitVars, expressVars, decompressVars, blinkVars>>
  /\ ForgetSecond /\ ForgetStations /\ ForgetRepeat
  /\ UNCHANGED <<providerVars, loadVars, predictVars, run, runFromEmpty,
                 loadStart, loadResult, rendererPc, listening, timerOn,
                 currentStation, currentDirection, displayPredictions,
                 refreshed, cyclesAwaiting, selectionChanged>>

\* refresh() up to its await of renderer.render: getPredictions, the
\* rotation step, and the list handed to the renderer
RefreshCycle(date) ==
  \E predicted \in {getPredictions(currentStation', currentDirection', date)} :
  \E second \in {rotationStep(predicted.list, lastSecondTrain)} :
     /\ ~predicted.raised
     /\ callStop' = currentStation'
     /\ callDir' = currentDirection'
     /\ callNow' = date
     /\ dataChanged' = FALSE
     /\ candidates' = predicted.collected
     /\ predictions' = predicted.list
     /\ lastSecondTrain' = second.last
     /\ secondArg' = IF second.called THEN Some(predicted.list) ELSE Null
     /\ prevRank' = IF second.called THEN rankOf(lastSecondTrain) ELSE Null
     /\ secondTrain' = second.result
     /\ memoryWrites' = second.writes
     /\ UNCHANGED <<waitVars, expressVars, decompressVars, blinkVars>>
     /\ displayPredictions' = displayPredictionsOf(predicted.list, second.result)
     /\ refreshed' = TRUE
     /\ selectionChanged' = (<<currentStation', currentDirection'>>
                               # <<currentStation, currentDirection>>)
     /\ lastOp' = "refresh"
     /\ raised' = second.raised
     /\ ForgetRepeat /\ ForgetLoadStart
     /\ UNCHANGED <<historicalData, stations, childStationIds, loadPc,
                    loadResult, run, runFromEmpty>>

\* initialize() after its await: the station selector is filled, the event
\* listeners are registered and the first refresh is called
InitializeResume(date) ==
  /\ appPc = "loading"
  /\ initializeMayResume
  /\ appPc' = "rendering"
  /\ stationsResult' = getStations
  /\ listening' = TRUE
  /\ UNCHANGED <<currentStation, currentDirection, rendererPc, timerOn,
                 cyclesAwaiting>>
  /\ RefreshCycle(date)

\* the render of the first refresh settles: the interval is started, or
\* initialize() throws
InitialRenderSettled(ok) ==
  /\ appPc = "rendering"
  /\ appPc' = IF ok THEN "ready" ELSE "failed"
  /\ timerOn' = ok
  /\ lastOp' = "renderSettled"
  /\ raised' = ~ok
  /\ memoryWrites' = 0
  /\ UNCHANGED <<waitVars, expressVars, decompressVars, blinkVars>>
  /\ ForgetSecond /\ ForgetStations /\ ForgetRepeat
  /\ UNCHANGED <<providerVars, loadVars, predictVars, run, runFromEmpty,
                 loadStart, loadResult, rendererPc, listening,
                 currentStation, currentDirection, displayPredictions,
                 refreshed, cyclesAwaiting, selectionChanged>>

\* the interval callback
TimerRefresh(date) ==
  /\ timerOn
  /\ cyclesAwaiting < MaxAwaiting
  /\ cyclesAwaiting' = cyclesAwaiting + 1
  /\ ForgetStations
  /\ UNCHANGED <<appPc, rendererPc, listening, timerOn, currentStation,
                 currentDirection>>
  /\ RefreshCycle(date)

\* the change listener of the station selector
StationChange(stopId, date) ==
  /\ listening
  /\ cyclesAwaiting < MaxAwaiting
  /\ cyclesAwaiting' = cyclesAwaiting + 1
  /\ currentStation' = stopId
  /\ ForgetStations
  /\ UNCHANGED <<appPc, rendererPc, listening, timerOn, currentDirection>>
  /\ RefreshCycle(date)

\* the click listeners of the uptown, downtown and both buttons
DirectionClick(direction, date) ==
  /\ listening
  /\ cyclesAwaiting < MaxAwaiting
  /\ cyclesAwaiting' = cyclesAwaiting + 1
  /\ currentDirection' = direction
  /\ ForgetStations
  /\ UNCHANGED <<appPc, rendererPc, listening, timerOn, currentStation>>
  /\ RefreshCycle(date)

\* the render a listener's refresh() awaits settles: the WebGL pass and the
\* info line follow, or the listener's promise rejects
RenderSettled(ok) ==
  /\ cyclesAwaiting > 0
  /\ cyclesAwaiting' = cyclesAwaiting - 1
  /\ lastOp' = "cycleSettled"
  /\ raised' = ~ok
  /\ memoryWrites' = 0
  /\ UNCHANGED <<waitVars, expressVars, decompressVars, blinkVars>>
  /\ ForgetSecond /\ ForgetStations /\ ForgetRepeat
  /\ UNCHANGED <<providerVars, loadVars, predictVars, run, runFromEmpty,
                 loadStart, loadResult, appPc, rendererPc, listening, timerOn,
                 currentStation, currentDirection, displayPredictions,
                 refreshed, selectionChanged>>

\* the values of the options of the station selector
SelectorValues == { getStations[k].stop_id : k \in 1..Len(getStations) }

\* the one loadData call the application makes, from initialize()
InitialLoadData == historicalData = Null /\ LoadData

\* the provider as the application drives it: one load, then any calls
Next ==
  \/ InitialLoadData
  \/ \E compressed \in CompressedDocs : LoadHistorical(compressed)
  \/ \E stationList \in StationDocs : LoadStations(stationList)
  \/ GetStations
  \/ \E stopId \in StopIds, direction \in Directions, date \in Instants :
       GetPredictions(stopId, direction, date)
  \/ \E arg \in {Null, Some(predictions)} : GetSecondTrain(arg)

Spec == Init /\ [][Next]_vars

\* the dataset store and the prediction engine under any number of loads,
\* without the rotation selector
NextEngine ==
  \/ LoadData
  \/ \E compressed \in CompressedDocs : LoadHistorical(compressed)
  \/ \E stationList \in StationDocs : LoadStations(stationList)
  \/ GetStations
  \/ \E stopId \in StopIds, direction \in Directions, date \in Instants :
       GetPredictions(stopId, direction, date)

SpecEngine == Init /\ [][NextEngine]_vars

\* the provider as the application drives it when the station is taken from
\* the URL
NextURL ==
  \/ InitialLoadData
  \/ \E compressed \in CompressedDocs : LoadHistorical(compressed)
  \/ \E stationList \in StationDocs : LoadStations(stationList)
  \/ \E stopId \in StopIdsOfURL, direction \in Directions, date \in WeekdayInstants :
       GetPredictions(stopId, direction, date)
  \/ \E arg \in {Null, Some(predictions)} : GetSecondTrain(arg)

SpecURL == Init /\ [][NextURL]_vars

\* the whole provider under any number of loads: the dataset store, the
\* prediction engine and the rotation selector
NextProvider ==
  \/ LoadData
  \/ \E compressed \in CompressedDocs : LoadHistorical(compressed)
  \/ \E stationList \in StationDocs : LoadStations(stationList)
  \/ \E stopId \in StopIds, direction \in Directions, date \in WeekdayInstants :
       GetPredictions(stopId, direction, date)
  \/ \E arg \in {Null, Some(predictions)} : GetSecondTrain(arg)

SpecProvider == Init /\ [][NextProvider]_vars

\* the dataset store under any number of loads, each of which may fail at
\* either fetch, with any topology in the station document
NextLoad ==
  \/ LoadData
  \/ \E compressed \in CompressedDocs : LoadHistorical(compressed)
  \/ LoadHistoricalFail
  \/ \E stationList \in StationDocsLoad : LoadStations(stationList)
  \/ LoadStationsFail
  \/ GetStations
  \/ \E stopId \in StopIds, direction \in Directions, date \in Instants :
       GetPredictions(stopId, direction, date)

SpecLoad == Init /\ [][NextLoad]_vars

\* the instants at which the application refreshes: a weekday and a Sunday
AppInstants == { date \in Instants : date.day \in 0..5 }

\* the application: the DOMContentLoaded handler, the interval and the UI
\* events, with the provider's load running underneath
NextApp ==
  \/ \E urlStation \in {Null} \cup {Some(stopId) : stopId \in StopIds} :
       Initialize(urlStation)
  \/ \E compressed \in CompressedDocs :
       LoadHistorical(compressed)
  \/ LoadHistoricalFail
  \/ \E stationList \in StationDocs : LoadStations(stationList)
  \/ LoadStationsFail
  \/ \E ok \in BOOLEAN : RendererInitialized(ok)
  \/ InitializeFail
  \/ \E date \in AppInstants : InitializeResume(date)
  \/ \E ok \in BOOLEAN : InitialRenderSettled(ok)
  \/ \E date \in AppInstants : TimerRefresh(date)
  \/ \E stopId \in SelectorValues, date \in AppInstants : StationChange(stopId, date)
  \/ \E direction \in Directions, date \in AppInstants :
       DirectionClick(direction, date)
  \/ \E ok \in BOOLEAN : RenderSettled(ok)

SpecApp == Init /\ [][NextApp]_vars

\* the record of the express classification: it departs at 0:01:40 on weekdays
expressRecord ==
  [route_id |-> expressRoute, direction_id |-> "0", long_name |-> Names[1],
   departure_time |-> 100, trip_id |-> expressTrip,
   day_type |-> DayType.WEEKDAY]

\* the loop body, the sort, the ranking and the cut of getPredictions applied
\* to the record at 0:00:50 on a weekday
ClassifyExpress ==
  /\ expressResult = Null
  /\ expressResult' =
       Some(slice(assignDisplayOrder(sortByTime(
              collectTimes(<<expressRecord>>, Null, DayType.WEEKDAY, 50))),
            MAX_NUM_PREDICTIONS))
  /\ UNCHANGED <<providerVars, loadVars, predictVars, rotateVars, appVars,
                 lastOp, raised, callRepeats, afterSecond, stationsResult,
                 loadStart, loadResult, memoryWrites, waitVars, expressRoute,
                 expressTrip, decompressVars, blinkVars>>

InitExpress ==
  /\ InitProvider
  /\ NoWaitInput
  /\ expressRoute \in ExpressRoutes
  /\ expressTrip \in ExpressTrips
  /\ NoDecompressInput

NextExpress == ClassifyExpress

\* the express classification of a record of any route and trip id
SpecExpress == InitExpress /\ [][NextExpress]_vars

\* decompressHistoricalData applied to the document
Decompress ==
  /\ decompressedOut = Null
  /\ decompressedOut' = Some(decompressHistoricalData(compressedIn))
  /\ UNCHANGED <<providerVars, loadVars, predictVars, rotateVars, appVars,
                 lastOp, raised, callRepeats, afterSecond, stationsResult,
                 loadStart, loadResult, memoryWrites, waitVars, expressVars,
                 compressedIn, blinkVars>>

InitDecompress ==
  /\ InitProvider
  /\ NoWaitInput
  /\ NoExpressInput
  /\ compressedIn \in CompactDocs

NextDecompress == Decompress

\* the decompression of any compacted document
SpecDecompress == InitDecompress /\ [][NextDecompress]_vars

\* departure times of a record, in seconds from midnight
DepartureSeconds ==
  UNION { { t \in (a - Spread)..(a + Spread) : t \in 0..(SecondsPerDay - 1) } :
            a \in {0, Horizon, SecondsPerDay \div 2, SecondsPerDay - 1} }

\* local times of day read from the clock
ClockInstants ==
  [day : {1}, hours : {0, 1, 23}, minutes : {0, 59},
   seconds : (0..Spread) \cup ((59 - Spread)..59)]

\* the wait computation of getPredictions for one record at one instant
ComputeWait ==
  LET wait == waitTimeOf([departure_time |-> waitDeparture],
                         getSecondsFromMidnight(waitNow))
  IN /\ waitResult = Null
     /\ waitResult' = Some(wait)
     /\ waitLeft' = alreadyLeft(wait)
     /\ UNCHANGED <<providerVars, loadVars, predictVars, rotateVars, appVars,
                    lastOp, raised, callRepeats, afterSecond, stationsResult,
                    loadStart, loadResult, memoryWrites, waitDeparture,
                    waitNow, expressVars, decompressVars, blinkVars>>

InitWait ==
  /\ InitProvider
  /\ waitDeparture \in DepartureSeconds
  /\ waitNow \in ClockInstants
  /\ NoExpressInput
  /\ NoDecompressInput

NextWait == ComputeWait

\* the wait computation on any departure time and any time of day
SpecWait == InitWait /\ [][NextWait]_vars

-----------------------------------------------------------------------------
(* Renderer: MTARenderer and its BlinkAnimation *)

\* BlinkAnimation.duration, in milliseconds
duration == 15000

\* the lists handed to render, as the waits of their entries
RenderLists ==
  {<<>>} \cup { <<[time |-> t]>> : t \in {20, 21, 30, 31} }
         \cup { <<[time |-> t], [time |-> 90]>> : t \in {20, 21, 30, 31} }

\* Date.now() - startTime when a frame callback runs
ElapsedTimes == {0, duration - 1, duration, duration + 1}

\* new BlinkAnimation(...): animationId is none (null), pending (a requested
\* frame is outstanding) or stale (the frame it names has run); frames,
\* starts, completions, stopped, endedAt and declined record what happened
\* to the object
newBlinkAnimation ==
  [isRunning |-> FALSE, animationId |-> "none", frames |-> 0, starts |-> 0,
   completions |-> 0, stopped |-> FALSE, endedAt |-> Null, declined |-> FALSE]

isActive(anim) == anim.isRunning

\* animate(): the frame callback at elapsed milliseconds after startTime
animate(anim, elapsed) ==
  IF ~anim.isRunning
  THEN [anim EXCEPT !.animationId = IF @ = "pending" THEN "stale" ELSE @]
  ELSE IF elapsed >= duration
       THEN [anim EXCEPT !.frames = @ + 1,
                         !.isRunning = FALSE,
                         !.completions = @ + 1,
                         !.endedAt = Some(elapsed),
                         !.animationId = IF @ = "pending" THEN "stale" ELSE @]
       ELSE [anim EXCEPT !.frames = @ + 1, !.animationId = "pending"]

\* start(): no effect on a running animation; the first frame is drawn in
\* the call
start(anim) ==
  IF anim.isRunning THEN anim
  ELSE animate([anim EXCEPT !.isRunning = TRUE, !.starts = @ + 1], 0)

\* stop() leaving the requested frame outstanding and the flag set
stopWithoutEffect(anim) == [anim EXCEPT !.stopped = TRUE]

\* stop(): the outstanding frame is cancelled
stop(anim) ==
  [anim EXCEPT !.isRunning = FALSE, !.animationId = "none", !.stopped = TRUE]

shouldBlink(predictionList) ==
  /\ Len(predictionList) > 0
  /\ predictionList[1].time > 20
  /\ predictionList[1].time <= 30

\* this.blinkAnimation?.isActive()
rendererBlinkActive ==
  blinkAnimation # Null /\ isActive(animations[Get(blinkAnimation)])

\* the test of render with the animation in progress not looked at
mayStartBlinkIgnoringActive(blink) == blink

\* shouldBlink && !this.blinkAnimation?.isActive()
mayStartBlink(blink) == blink /\ ~rendererBlinkActive

RemoveAt(seq, k) == SubSeq(seq, 1, k - 1) \o SubSeq(seq, k + 1, Len(seq))

nonBlinkVars ==
  <<providerVars, loadVars, predictVars, rotateVars, appVars, lastOp, raised,
    callRepeats, afterSecond, stationsResult, loadStart, loadResult,
    memoryWrites, waitVars, expressVars, decompressVars>>

\* render(predictions) up to its first await: with an empty list the call
\* runs through, and starts nothing
Render(predictionList) ==
  /\ Len(renders) < MaxRenders
  /\ shouldBlink(predictionList) =>
       Len(animations) + Cardinality({ k \in 1..Len(renders) : renders[k].shouldBlink })
         < MaxAnimations
  /\ renders' = IF Len(predictionList) = 0 THEN renders
                ELSE Append(renders,
                            [shouldBlink |-> shouldBlink(predictionList),
                             firstWait |-> predictionList[1].time,
                             rowsLeft |-> Min(Len(predictionList), 2)])
  /\ UNCHANGED <<blinkAnimation, animations, nonBlinkVars>>

\* an awaited renderTrainRow resolves: the next row is begun, or after the
\* last row the canvas is synced and startBlinkAnimation is called if
\* the test passes
RenderRowDone(k) ==
  /\ k \in 1..Len(renders)
  /\ IF renders[k].rowsLeft > 1
     THEN /\ renders' = [renders EXCEPT ![k].rowsLeft = @ - 1]
          /\ UNCHANGED <<blinkAnimation, animations>>
     ELSE /\ renders' = RemoveAt(renders, k)
          /\ IF mayStartBlink(renders[k].shouldBlink)
             THEN /\ animations' =
                       Append(animations, start(newBlinkAnimation))
                  /\ blinkAnimation' = Some(Len(animations) + 1)
             ELSE /\ animations' =
                       IF renders[k].shouldBlink
                       THEN [animations EXCEPT ![Get(blinkAnimation)].declined = TRUE]
                       ELSE animations
                  /\ UNCHANGED blinkAnimation
  /\ UNCHANGED nonBlinkVars

\* an awaited renderTrainRow rejects: render rejects
RenderRowFail(k) ==
  /\ k \in 1..Len(renders)
  /\ renders' = RemoveAt(renders, k)
  /\ UNCHANGED <<blinkAnimation, animations, nonBlinkVars>>

\* the frame requested by animation i runs, elapsed milliseconds after its
\* start; on completion onComplete clears the field of the renderer
AnimationFrame(i, elapsed) ==
  /\ i \in 1..Len(animations)
  /\ animations[i].animationId = "pending"
  /\ elapsed < duration => animations[i].frames <= MaxFrames
  /\ \E after \in {animate(animations[i], elapsed)} :
       /\ animations' = [animations EXCEPT ![i] = after]
       /\ blinkAnimation' = IF after.completions > animations[i].completions
                            THEN Null ELSE blinkAnimation
  /\ UNCHANGED <<renders, nonBlinkVars>>

\* MTARenderer.clear()
Clear ==
  /\ IF rendererBlinkActive
     THEN /\ animations' = [animations EXCEPT ![Get(blinkAnimation)] = stop(@)]
          /\ blinkAnimation' = Null
     ELSE UNCHANGED <<blinkAnimation, animations>>
  /\ UNCHANGED <<renders, nonBlinkVars>>

NextBlink ==
  \/ \E predictionList \in RenderLists : Render(predictionList)
  \/ \E k \in 1..MaxRenders : RenderRowDone(k)
  \/ \E k \in 1..MaxRenders : RenderRowFail(k)
  \/ \E i \in 1..MaxAnimations, elapsed \in ElapsedTimes : AnimationFrame(i, elapsed)
  \/ Clear

\* the renderer under any render and clear calls and frame callbacks
SpecBlink == Init /\ [][NextBlink]_vars

TypeOK ==
  /\ loadPc \in {"idle", "awaitHistorical", "awaitStations"}
  /\ lastOp \in Ops
  /\ dataChanged \in BOOLEAN
  /\ raised \in BOOLEAN
  /\ Len(predictions) <= Len(candidates)
  /\ loadResult \in {"none", "resolved", "rejected"}
  /\ memoryWrites \in 0..1
  /\ appPc \in {"start", "loading", "rendering", "ready", "failed"}
  /\ rendererPc \in {"idle", "pending", "ready", "failed"}
  /\ Len(displayPredictions) <= 2

----------------------------------------------------------------------------
(* Properties: what a call is expected to return, stated from the arguments  *)
(* and the tables, independently of the loops above                          *)

PredictCalled == lastOp = "getPredictions" /\ ~raised

\* the stop ids whose records a call for stopId is to merge
TargetsOf(stopId) ==
  LET idx == { i \in 1..Len(stations) : stations[i].stop_id = stopId }
  IN IF idx = {} THEN <<stopId>>
     ELSE LET first == stations[CHOOSE i \in idx : \A j \in idx : i <= j]
          IN IF hasChildren(first) THEN <<stopId>> \o first.children ELSE <<stopId>>

\* the records of the given stops, in the order of the stops and of the dataset
RECURSIVE RecordsOf(_)
RecordsOf(ids) ==
  IF ids = <<>> \/ historicalData = Null THEN <<>>
  ELSE (IF Head(ids) \in DOMAIN Get(historicalData)
        THEN Get(historicalData)[Head(ids)] ELSE <<>>) \o RecordsOf(Tail(ids))

CallSeconds == callNow.hours * 3600 + callNow.minutes * 60 + callNow.seconds

CallDay ==
  CASE callNow.day = 0 -> "sunday"
    [] callNow.day = 6 -> "saturday"
    [] callNow.day \in 1..5 -> "weekday"

\* the wait of a record at the instant of the call, wrapped into one day
WaitOf(r) == (r.departure_time - CallSeconds) % SecondsPerDay

DayMatches(r) == r.day_type = CallDay

DirMatches(r) ==
  \/ callDir = Null
  \/ callDir = Some(0) /\ r.direction_id = "0"
  \/ callDir = Some(1) /\ r.direction_id = "1"

Qualifies(r) == DayMatches(r) /\ DirMatches(r) /\ WaitOf(r) \in 0..Horizon

\* the entry a record yields, and an entry, without rank
EntryOf(r) ==
  [route_id |-> r.route_id, direction_id |-> r.direction_id,
   long_name |-> r.long_name, time |-> WaitOf(r), trip_id |-> r.trip_id]

Strip(p) ==
  [route_id |-> p.route_id, direction_id |-> p.direction_id,
   long_name |-> p.long_name, time |-> p.time, trip_id |-> p.trip_id]

\* C4: a record that passes the day and direction filters is among the
\* candidates of getPredictions exactly when its wait, wrapped past midnight,
\* is within 0..3600; nothing else is a candidate
C4_HorizonFilter ==
  PredictCalled =>
    LET recs == RecordsOf(TargetsOf(callStop))
        passing == { n \in 1..Len(recs) : DayMatches(recs[n]) /\ DirMatches(recs[n]) }
    IN /\ \A n \in passing :
            (\E i \in 1..Len(candidates) : Strip(candidates[i]) = EntryOf(recs[n]))
              <=> WaitOf(recs[n]) \in 0..Horizon
       /\ Len(candidates) =
            Cardinality({ n \in passing : WaitOf(recs[n]) \in 0..Horizon })

\* a call whose records have the waits 0 and 3600 (kept) and 3601 and 86399
\* (dropped)
C4_Witness ==
  /\ PredictCalled
  /\ LET recs == RecordsOf(TargetsOf(callStop))
         waits == { WaitOf(recs[n]) :
                      n \in { m \in 1..Len(recs) :
                                DayMatches(recs[m]) /\ DirMatches(recs[m]) } }
     IN {0, Horizon, Horizon + 1, SecondsPerDay - 1} \subseteq waits
  /\ \E i \in 1..Len(candidates) : candidates[i].time = Horizon
  /\ \E i \in 1..Len(candidates) : candidates[i].time = 0

\* the position an entry of the candidates takes in a stable ascending order
StablePosition(i) ==
  1 + Cardinality({ j \in 1..Len(candidates) :
                      \/ candidates[j].time < candidates[i].time
                      \/ candidates[j].time = candidates[i].time /\ j < i })

\* C5: the returned list ascends by wait, entries of equal wait stay in
\* input order, and the input order is the requested stop first, then its
\* children as listed, each stop's records in dataset order
C5_StableSort ==
  PredictCalled =>
    LET recs == RecordsOf(TargetsOf(callStop))
    IN /\ [i \in 1..Len(candidates) |-> Strip(candidates[i])]
            = [i \in 1..Len(SelectSeq(recs, Qualifies)) |->
                 EntryOf(SelectSeq(recs, Qualifies)[i])]
       /\ \A k \in 1..Len(predictions) :
            \E i \in 1..Len(candidates) :
              StablePosition(i) = k /\ Strip(predictions[k]) = Strip(candidates[i])
       /\ \A k \in 1..(Len(predictions) - 1) :
            predictions[k].time <= predictions[k + 1].time

\* a call that merges entries of equal wait from different stops and has to
\* reorder its candidates
C5_Witness ==
  /\ PredictCalled
  /\ \E i, j \in 1..Len(predictions) :
       /\ i < j
       /\ predictions[i].time = predictions[j].time
       /\ predictions[i].route_id # predictions[j].route_id
  /\ \E a, b \in 1..Len(candidates) : a < b /\ candidates[a].time > candidates[b].time
  /\ Len(TargetsOf(callStop)) > 1

\* C6: at most MAX_NUM_PREDICTIONS entries are returned, the entry at index i
\* has rank i, and the entries returned are those of smallest wait
C6_RankAndCapacity ==
  PredictCalled =>
    /\ Len(predictions) <= MAX_NUM_PREDICTIONS
    /\ Len(predictions) = Min(Len(candidates), MAX_NUM_PREDICTIONS)
    /\ \A k \in 1..Len(predictions) :
         /\ predictions[k].display_order = k - 1
         /\ \E i \in 1..Len(candidates) : Strip(candidates[i]) = Strip(predictions[k])
         /\ Cardinality({ j \in 1..Len(candidates) :
                            candidates[j].time < predictions[k].time }) < k
         /\ Cardinality({ j \in 1..Len(candidates) :
                            candidates[j].time <= predictions[k].time }) >= k

\* a call with more than MAX_NUM_PREDICTIONS candidates, one of the first six
\* collected being later than the seventh
C6_Witness ==
  /\ PredictCalled
  /\ Len(candidates) > MAX_NUM_PREDICTIONS
  /\ Len(predictions) = MAX_NUM_PREDICTIONS
  /\ \E a \in 1..MAX_NUM_PREDICTIONS :
       candidates[a].time > candidates[MAX_NUM_PREDICTIONS + 1].time

AbsentFromStations(stopId) ==
  \A i \in 1..Len(stations) : stations[i].stop_id # stopId

\* the entries to expect from the records of the given stops
ExpectedFrom(ids) ==
  LET qualifying == SelectSeq(RecordsOf(ids), Qualifies)
  IN [i \in 1..Len(qualifying) |-> EntryOf(qualifying[i])]

CallHasChildren ==
  /\ ~AbsentFromStations(callStop)
  /\ Len(TargetsOf(callStop)) > 1

\* the places of the qualifying records of the targets: <<k, n>> is record n
\* of the k-th target
QualifyingPlaces ==
  LET ids == TargetsOf(callStop)
  IN { kn \in (1..Len(ids)) \X (1..Len(RecordsOf(ids))) :
         /\ historicalData # Null
         /\ ids[kn[1]] \in DOMAIN Get(historicalData)
         /\ kn[2] \in 1..Len(Get(historicalData)[ids[kn[1]]])
         /\ Qualifies(Get(historicalData)[ids[kn[1]]][kn[2]]) }

PlaceEntry(kn) ==
  EntryOf(Get(historicalData)[TargetsOf(callStop)[kn[1]]][kn[2]])

\* C9: for a stop with children the candidates are, entry for entry, the
\* qualifying records of the stop and of the children it lists, and of no
\* other stop; they come back as one list ascending by wait of at most
\* MAX_NUM_PREDICTIONS entries
C9_ChildMerge ==
  (lastOp = "getPredictions" /\ CallHasChildren) =>
    /\ ~raised
    /\ Len(candidates) = Cardinality(QualifyingPlaces)
    /\ \A i \in 1..Len(candidates) :
         Cardinality({ j \in 1..Len(candidates) : Strip(candidates[j]) = Strip(candidates[i]) })
           = Cardinality({ kn \in QualifyingPlaces : PlaceEntry(kn) = Strip(candidates[i]) })
    /\ Len(predictions) <= MAX_NUM_PREDICTIONS
    /\ \A k \in 1..(Len(predictions) - 1) : predictions[k].time <= predictions[k + 1].time
    /\ \A k \in 1..Len(predictions) :
         \E i \in 1..Len(candidates) : Strip(candidates[i]) = Strip(predictions[k])

\* a call for a stop with a child that has no records, a child whose own
\* child has a qualifying record, and a qualifying record at an unrelated stop
C9_Witness ==
  /\ PredictCalled
  /\ CallHasChildren
  /\ LET ids == TargetsOf(callStop)
         listed == { ids[k] : k \in 1..Len(ids) }
     IN /\ \E c \in listed : c \notin DOMAIN Get(historicalData)
        /\ \E c \in listed \ {callStop} :
             \E g \in { TargetsOf(c)[k] : k \in 1..Len(TargetsOf(c)) } \ listed :
               ExpectedFrom(<<g>>) # <<>>
        /\ \E o \in DOMAIN Get(historicalData) \ listed : ExpectedFrom(<<o>>) # <<>>
  /\ Len(candidates) > MAX_NUM_PREDICTIONS

\* stopId is in the children list of a station of the list
IsChild(stopId) ==
  \E i \in 1..Len(stations) :
    /\ hasChildren(stations[i])
    /\ \E j \in 1..Len(stations[i].children) : stations[i].children[j] = stopId

\* C10: getStations returns, in loaded order, the stations that no station of
\* the list names as a child
C10_StationsForDisplay ==
  lastOp = "getStations" =>
    /\ ~raised
    /\ stationsResult = SelectSeq(stations, LAMBDA st : ~IsChild(st.stop_id))
    /\ \A i \in 1..Len(stationsResult) : stationsResult[i].stop_id \notin childStationIds

\* a listing after a load that leaves out a child and keeps two stations
C10_Witness ==
  /\ lastOp = "getStations"
  /\ loadPc = "idle"
  /\ Len(stationsResult) >= 2
  /\ \E i \in 1..Len(stations) : IsChild(stations[i].stop_id)

SecondCalled == lastOp = "getSecondTrain" /\ ~raised

\* C1: an entry returned by getSecondTrain never has rank 0
C1_NeverFirstTrain ==
  (SecondCalled /\ secondTrain # Null) => Get(secondTrain).display_order >= 1

\* a call on a full list whose remembered rank was that of the last entry
C1_Witness ==
  /\ SecondCalled
  /\ secondTrain # Null
  /\ Len(predictions) = MAX_NUM_PREDICTIONS
  /\ prevRank = Some(MAX_NUM_PREDICTIONS - 1)
  /\ Get(secondTrain).display_order = 1

\* C2: from empty rotation memory, repeated calls on one unchanged list of N
\* entries return the ranks 1, 2, ..., N-1, 1, 2, ... in that order
C2_RotationSequence ==
  (runFromEmpty /\ run # <<>>) =>
    /\ Len(predictions) >= 2
    /\ \A k \in 1..Len(run) : run[k] = ((k - 1) % (Len(predictions) - 1)) + 1

\* two full cycles and the start of a third on a list of six entries
C2_Witness ==
  /\ SecondCalled
  /\ runFromEmpty
  /\ Len(predictions) = MAX_NUM_PREDICTIONS
  /\ Len(run) >= 2 * (MAX_NUM_PREDICTIONS - 1) + 1

\* the list passed to the last getSecondTrain call has fewer than 2 entries
\* or is missing
DegenerateArg(arg) == arg = Null \/ Len(Get(arg)) < 2

\* C3: a getSecondTrain call with fewer than 2 predictions returns none and
\* leaves lastSecondTrain as it was
C3_DegenerateCallNoChange ==
  [][(lastOp' = "getSecondTrain" /\ DegenerateArg(secondArg'))
       => (/\ ~raised'
           /\ secondTrain' = Null
           /\ lastSecondTrain' = lastSecondTrain)]_vars

\* a call with a single-entry list while a rank is remembered
C3_Witness ==
  /\ SecondCalled
  /\ secondArg # Null
  /\ Len(Get(secondArg)) = 1
  /\ secondTrain = Null
  /\ prevRank # Null
  /\ lastSecondTrain # Null

\* C7: a getPredictions call with the stop id, direction and instant of the
\* call before it, no table assigned in between, returns the list the call
\* before returned, whatever getSecondTrain calls were made in between
C7_SameCallSameList ==
  [][(/\ lastOp' = "getPredictions"
      /\ ~dataChanged
      /\ callStop' = callStop /\ callDir' = callDir /\ callNow' = callNow)
       => (~raised' /\ predictions' = predictions)]_vars

\* a repeated call right after a getSecondTrain call that returned an entry
C7_Witness ==
  /\ PredictCalled
  /\ callRepeats
  /\ afterSecond
  /\ lastSecondTrain # Null
  /\ Len(predictions) >= 3

----------------------------------------------------------------------------
(* C11: a load that fails at any step leaves the historical data, the        *)
(* station list and the child-station set exactly as they were when the      *)
(* load started                                                              *)

C11_FailedLoadKeepsTables ==
  (lastOp = "loadFailed" /\ loadStart # Null) => tables = Get(loadStart)

----------------------------------------------------------------------------
(* C12: a load of a topology in which a station is its own descendant (it    *)
(* lists itself as a child, or a cycle runs through children lists) fails:   *)
(* no load that resolved leaves such a topology in the store                 *)

\* the stop ids listed as children of stop id in the station list
ChildIdsOf(list, id) ==
  UNION { { list[k].children[c] : c \in 1..Len(list[k].children) } :
            k \in { k \in 1..Len(list) :
                      list[k].stop_id = id /\ "children" \in DOMAIN list[k] } }

\* the stop ids reached from ids in at most n steps down the children lists
RECURSIVE DescendantsWithin(_, _, _)
DescendantsWithin(list, ids, n) ==
  IF n = 0 THEN {}
  ELSE LET below == UNION { ChildIdsOf(list, id) : id \in ids }
       IN below \cup DescendantsWithin(list, below, n - 1)

OwnDescendant(list) ==
  { list[k].stop_id : k \in { k \in 1..Len(list) :
      list[k].stop_id \in DescendantsWithin(list, {list[k].stop_id}, Len(list)) } }

C12_CyclicTopologyRejected ==
  loadResult = "resolved" => OwnDescendant(stations) = {}

----------------------------------------------------------------------------
(* C13: no refresh (and so no getPredictions call) is performed before       *)
(* loadData has completed, and none at all when loadData fails: whenever a   *)
(* refresh has been performed, the load has resolved                         *)

C13_NoRefreshBeforeLoad ==
  /\ refreshed => loadResult = "resolved"
  /\ (listening \/ timerOn) => loadResult = "resolved"

\* an interval refresh of the running application
C13_Witness ==
  /\ lastOp = "refresh"
  /\ timerOn
  /\ loadResult = "resolved"
  /\ Len(predictions) > 0

----------------------------------------------------------------------------
(* C14: getPredictions and getSecondTrain never raise an error: before any   *)
(* load, for an unknown stop, for a stop or child without records, on a      *)
(* day-type mismatch and with a remembered rank that is no longer present    *)
(* they return an empty list, none, or a best-effort entry                   *)

\* the rank remembered before the last getSecondTrain call is the rank of no
\* entry of its argument
StaleMemory ==
  /\ prevRank # Null
  /\ secondArg # Null
  /\ \A k \in 1..Len(Get(secondArg)) :
       Get(secondArg)[k].display_order # Get(prevRank)

C14_NeverRaises ==
  /\ lastOp \in {"getPredictions", "getSecondTrain"} => ~raised
  /\ (lastOp = "getPredictions" /\ historicalData = Null) => predictions = <<>>
  /\ (lastOp = "getSecondTrain" /\ StaleMemory /\ Len(Get(secondArg)) >= 2)
       => secondTrain # Null

\* a getPredictions call before any load
C14_Witness ==
  /\ lastOp = "getPredictions"
  /\ historicalData = Null
  /\ ~raised
  /\ predictions = <<>>

----------------------------------------------------------------------------
(* C15 as claimed: the rotation memory is assigned exactly once in every     *)
(* refresh cycle, and on every getSecondTrain call                           *)

C15_MutatedOnceEveryRefresh ==
  /\ lastOp = "refresh" => memoryWrites = 1
  /\ (lastOp = "refresh" /\ secondArg # Null) => memoryWrites = 1

(* C15 as amended: a refresh cycle assigns the rotation memory exactly once  *)
(* (to the entry it hands out) when its prediction list has at least 2       *)
(* entries, and leaves it untouched when the list has fewer; getSecondTrain  *)
(* is called in the cycles with a non-empty list                             *)
C15_MutatedOncePerFullRefresh ==
  [][lastOp' = "refresh"
       => IF Len(predictions') >= 2
          THEN /\ memoryWrites' = 1
               /\ secondArg' = Some(predictions')
               /\ secondTrain' # Null
               /\ lastSecondTrain' = secondTrain'
          ELSE /\ memoryWrites' = 0
               /\ (secondArg' # Null <=> Len(predictions') = 1)
               /\ lastSecondTrain' = lastSecondTrain]_vars

\* the first cycle with a full list: the memory was empty and now holds the
\* entry handed out
C15_Witness ==
  /\ lastOp = "refresh"
  /\ Len(predictions) >= 2
  /\ prevRank = Null
  /\ memoryWrites = 1
  /\ lastSecondTrain # Null

----------------------------------------------------------------------------
(* C16: in a refresh cycle with a non-empty prediction list the entry of     *)
(* rank 0 is handed to the renderer first, and the second entry handed over, *)
(* when there is one, is what getSecondTrain returned in that cycle and has  *)
(* a rank other than 0; with an empty list nothing is handed over            *)

C16_FirstTrainFirst ==
  lastOp = "refresh" =>
    IF Len(predictions) = 0 THEN displayPredictions = <<>>
    ELSE /\ Len(displayPredictions) \in 1..2
         /\ displayPredictions[1] = predictions[1]
         /\ displayPredictions[1].display_order = 0
         /\ Len(displayPredictions) = 2 <=> secondTrain # Null
         /\ Len(displayPredictions) = 2 =>
              /\ displayPredictions[2] = Get(secondTrain)
              /\ displayPredictions[2].display_order # 0
              /\ \E k \in 2..Len(predictions) :
                   displayPredictions[2] = predictions[k]

\* a cycle in which the rotation has advanced past rank 1
C16_Witness ==
  /\ lastOp = "refresh"
  /\ Len(displayPredictions) = 2
  /\ displayPredictions[1].display_order = 0
  /\ displayPredictions[2].display_order > 1

----------------------------------------------------------------------------
(* C17: for a list of at least 2 predictions, when the rotation memory is    *)
(* empty or the remembered rank is the rank of no entry of the list,         *)
(* getSecondTrain returns predictions[1] and the memory then holds rank 1    *)

C17_FallbackToSecond ==
  (/\ SecondCalled
   /\ secondArg # Null
   /\ Len(Get(secondArg)) >= 2
   /\ (prevRank = Null \/ StaleMemory))
    => /\ secondTrain = Some(Get(secondArg)[2])
       /\ lastSecondTrain = secondTrain
       /\ rankOf(lastSecondTrain) = Some(1)

\* a call on a list that is shorter than the remembered rank
C17_Witness ==
  /\ SecondCalled
  /\ secondArg # Null
  /\ Len(Get(secondArg)) >= 2
  /\ StaleMemory
  /\ Get(prevRank) >= Len(Get(secondArg))
  /\ rankOf(lastSecondTrain) = Some(1)

----------------------------------------------------------------------------
(* C18: on a list returned by getPredictions, of length N >= 2, with rank r  *)
(* remembered, getSecondTrain behaves as a counter: it returns the entry of  *)
(* rank r + 1 when r + 1 < N and the entry of rank 1 otherwise, and          *)
(* remembers the rank returned, whatever lists the calls before were given   *)

\* the rank a counter hands out after rank r on a list of n entries
CounterNext(r, n) == IF r + 1 < n THEN r + 1 ELSE 1

C18_CounterEquivalence ==
  (/\ SecondCalled
   /\ secondArg # Null
   /\ Len(Get(secondArg)) >= 2
   /\ prevRank # Null)
    => LET list == Get(secondArg)
           rank == CounterNext(Get(prevRank), Len(list))
       IN /\ secondTrain # Null
          /\ Get(secondTrain).display_order = rank
          /\ Get(secondTrain) = list[rank + 1]
          /\ rankOf(lastSecondTrain) = Some(rank)

\* the counter advances on a list other than the one of the call that left
\* the remembered rank
C18_Witness ==
  /\ SecondCalled
  /\ secondArg # Null
  /\ prevRank # Null
  /\ ~runFromEmpty
  /\ run = <<>>
  /\ Len(Get(secondArg)) >= 4
  /\ Get(secondTrain).display_order = Get(prevRank) + 1

----------------------------------------------------------------------------
(* C19: for a departure time and a time of day both in 0..86399 the wait,    *)
(* after the single adjustment by 86400, lies in 0..86399 and equals the     *)
(* difference modulo a day (departure 0 at 23:59:59 waits 1), so the test    *)
(* waitTime < 0 made after the adjustment never fires                        *)

WaitNowSeconds == waitNow.hours * 3600 + waitNow.minutes * 60 + waitNow.seconds

C19_AdjustedWaitInDay ==
  /\ waitDeparture \in 0..(SecondsPerDay - 1)
  /\ WaitNowSeconds \in 0..(SecondsPerDay - 1)
  /\ waitResult # Null =>
       /\ Get(waitResult) \in 0..(SecondsPerDay - 1)
       /\ Get(waitResult) = (waitDeparture - WaitNowSeconds) % SecondsPerDay
       /\ ~waitLeft
       /\ (waitDeparture = 0 /\ WaitNowSeconds = SecondsPerDay - 1)
            => Get(waitResult) = 1

\* departure 0 at 23:59:59
C19_Witness ==
  /\ waitResult = Some(1)
  /\ waitDeparture = 0
  /\ WaitNowSeconds = SecondsPerDay - 1
  /\ ~waitLeft

----------------------------------------------------------------------------
(* C20: a getPredictions call changes nothing in the store: historical data, *)
(* station list, child-station set and rotation memory are after the call    *)
(* what they were before it, and the entries returned are built by the call: *)
(* the time and rank it writes into them appear in no dataset record         *)

DatasetFields ==
  {"route_id", "direction_id", "long_name", "departure_time", "trip_id",
   "day_type"}

PredictionFields ==
  {"route_id", "direction_id", "long_name", "time", "display_order",
   "trip_id", "is_express"}

C20_GetPredictionsFrame ==
  [][lastOp' = "getPredictions"
       => /\ historicalData' = historicalData
          /\ stations' = stations
          /\ childStationIds' = childStationIds
          /\ lastSecondTrain' = lastSecondTrain
          /\ \A k \in 1..Len(predictions') :
               DOMAIN predictions'[k] = PredictionFields
          /\ historicalData' # Null =>
               \A id \in DOMAIN Get(historicalData') :
                 \A k \in 1..Len(Get(historicalData')[id]) :
                   DOMAIN Get(historicalData')[id][k] = DatasetFields]_vars

\* a call that returned entries while a train was remembered
C20_Witness ==
  /\ lastOp = "getPredictions"
  /\ ~raised
  /\ Len(predictions) >= 2
  /\ lastSecondTrain # Null
  /\ historicalData # Null

-----------------------------------------------------------------------------
(* Day, direction and express classification of the returned predictions *)

\* the number of candidates equal, rank apart, to the entry e
CandidatesLike(e) ==
  Cardinality({ i \in 1..Len(candidates) : Strip(candidates[i]) = e })

\* C21: every entry getPredictions returns comes from a record whose day type
\* is the day type of the instant of the call (Sunday, Saturday, otherwise
\* weekday), also when the wait of the record wrapped past midnight; records
\* of another or of an unrecognised day type yield no entry
C21_DayTypeOfTheInstant ==
  PredictCalled =>
    LET recs == RecordsOf(TargetsOf(callStop))
        sameDay == { n \in 1..Len(recs) :
                       /\ recs[n].day_type = CallDay
                       /\ DirMatches(recs[n])
                       /\ WaitOf(recs[n]) \in 0..Horizon }
    IN /\ CallDay \in {"weekday", "saturday", "sunday"}
       /\ \A k \in 1..Len(predictions) :
            \E i \in 1..Len(candidates) : Strip(candidates[i]) = Strip(predictions[k])
       /\ \A i \in 1..Len(candidates) :
            CandidatesLike(Strip(candidates[i]))
              = Cardinality({ n \in sameDay : EntryOf(recs[n]) = Strip(candidates[i]) })

\* a call late on a Saturday that returns a Saturday record whose wait wrapped
\* past midnight, while a Sunday record and a record of an unrecognised day
\* type within the horizon are left out
C21_Witness ==
  /\ PredictCalled
  /\ CallDay = "saturday"
  /\ LET recs == RecordsOf(TargetsOf(callStop))
     IN /\ \E n \in 1..Len(recs) :
             /\ recs[n].day_type = "saturday"
             /\ recs[n].departure_time < CallSeconds
             /\ \E k \in 1..Len(predictions) : Strip(predictions[k]) = EntryOf(recs[n])
        /\ \E n \in 1..Len(recs) :
             /\ recs[n].day_type = "sunday"
             /\ recs[n].departure_time < CallSeconds
             /\ DirMatches(recs[n])
             /\ WaitOf(recs[n]) \in 0..Horizon
             /\ CandidatesLike(EntryOf(recs[n])) = 0
        /\ \E n \in 1..Len(recs) :
             /\ recs[n].day_type \notin {"weekday", "saturday", "sunday"}
             /\ DirMatches(recs[n])
             /\ WaitOf(recs[n]) \in 0..Horizon

\* the string form of the direction of the call
CallDirString == IF Get(callDir) = 0 THEN "0" ELSE "1"

\* C22: a call without direction drops no record for its direction; a call
\* with direction d returns only entries whose direction_id is the string
\* form of d and drops no record of that direction_id that passes the day
\* and horizon filters
C22_DirectionFilter ==
  PredictCalled =>
    LET recs == RecordsOf(TargetsOf(callStop))
        inDayAndHorizon == { n \in 1..Len(recs) :
                               DayMatches(recs[n]) /\ WaitOf(recs[n]) \in 0..Horizon }
    IN IF callDir = Null
       THEN /\ Len(candidates) = Cardinality(inDayAndHorizon)
            /\ Len(predictions) = Min(Len(candidates), MAX_NUM_PREDICTIONS)
       ELSE /\ \A k \in 1..Len(predictions) :
                 predictions[k].direction_id = CallDirString
            /\ \A i \in 1..Len(candidates) :
                 candidates[i].direction_id = CallDirString
            /\ Len(candidates) =
                 Cardinality({ n \in inDayAndHorizon :
                                 recs[n].direction_id = CallDirString })
            /\ Len(predictions) = Min(Len(candidates), MAX_NUM_PREDICTIONS)

\* a call for direction 0 that returns entries while records of direction 1
\* pass the day and horizon filters
C22_Witness ==
  /\ PredictCalled
  /\ callDir = Some(0)
  /\ Len(predictions) >= 2
  /\ LET recs == RecordsOf(TargetsOf(callStop))
     IN \E n \in 1..Len(recs) :
          /\ DayMatches(recs[n])
          /\ WaitOf(recs[n]) \in 0..Horizon
          /\ recs[n].direction_id = "1"

\* C28: no entry getPredictions returns from a dataset loaded through
\* loadData is marked express, whatever its route
C28_LoadedDataNeverExpress ==
  PredictCalled =>
    /\ \A i \in 1..Len(candidates) : ~candidates[i].is_express
    /\ \A k \in 1..Len(predictions) : ~predictions[k].is_express

\* a call that returns an entry of route 4
C28_Witness ==
  /\ PredictCalled
  /\ \E k \in 1..Len(predictions) : predictions[k].route_id \in {"4", "6"}

-----------------------------------------------------------------------------
(* The rotation memory over the life of the provider *)

\* C26: the rotation memory is empty or holds an entry of rank 1..5, and once
\* it holds an entry no operation (a reload, a getPredictions call for another
\* stop, a getSecondTrain call with fewer than 2 predictions) empties it
C26_MemoryRankNeverReset ==
  /\ [](lastSecondTrain # Null
          => Get(lastSecondTrain).display_order \in 1..(MAX_NUM_PREDICTIONS - 1))
  /\ [][lastSecondTrain # Null => lastSecondTrain' # Null]_vars

\* the memory holds rank 5 after a reload has replaced both tables
C26_Witness ==
  /\ lastSecondTrain # Null
  /\ Get(lastSecondTrain).display_order = MAX_NUM_PREDICTIONS - 1
  /\ lastOp = "loadStations"

-----------------------------------------------------------------------------
(* Refresh cycles of the timer and of the listeners that overlap *)

\* the rank handed out on a list of n >= 2 entries when the memory is last
RankAfter(last, n) ==
  IF last = Null THEN 1 ELSE CounterNext(Get(last).display_order, n)

\* C25: a refresh cycle that begins while an earlier cycle awaits its render
\* runs its getPredictions call and its rotation step back to back: the step
\* is given the list of this cycle and the memory the cycle before left, so a
\* cycle with at least 2 predictions advances the rotation once, no update is
\* lost and no rank is skipped
C25_OverlappingCyclesAtomic ==
  [][(lastOp' = "refresh" /\ (appPc = "rendering" \/ cyclesAwaiting > 0))
       => /\ predictions' = getPredictions(currentStation', currentDirection',
                                            callNow').list
          /\ secondArg' = IF Len(predictions') > 0 THEN Some(predictions') ELSE Null
          /\ IF Len(predictions') >= 2
             THEN /\ memoryWrites' = 1
                  /\ secondTrain' # Null
                  /\ lastSecondTrain' = secondTrain'
                  /\ secondTrain' = Some(predictions'[RankAfter(lastSecondTrain,
                                                     Len(predictions')) + 1])
             ELSE /\ secondTrain' = Null
                  /\ lastSecondTrain' = lastSecondTrain]_vars

\* a third cycle begun while two cycles await their renders, which hands out
\* the rank after the one the cycle before handed out
C25_Witness ==
  /\ lastOp = "refresh"
  /\ cyclesAwaiting >= 2
  /\ appPc = "rendering"
  /\ memoryWrites = 1
  /\ prevRank # Null
  /\ Get(secondTrain).display_order = Get(prevRank) + 1
  /\ Get(prevRank) >= 2

\* C27: the rotation memory is one for all stations and directions: the
\* refresh cycle after a change of station or direction hands out, on a list
\* of n >= 2 entries, the rank after the rank r remembered from the selection
\* before (r + 1, or 1 when r + 1 >= n or nothing is remembered) and does not
\* start again from the second entry
C27_MemorySharedAcrossSelections ==
  [][(/\ lastOp' = "refresh"
      /\ <<currentStation', currentDirection'>> # <<currentStation, currentDirection>>
      /\ Len(predictions') >= 2)
       => /\ secondTrain' # Null
          /\ Get(secondTrain').display_order
               = RankAfter(lastSecondTrain, Len(predictions'))
          /\ lastSecondTrain' = secondTrain']_vars

\* a cycle after a change of station or direction that hands out a rank
\* beyond 1, the rank after the remembered one
C27_Witness ==
  /\ lastOp = "refresh"
  /\ selectionChanged
  /\ prevRank # Null
  /\ secondTrain # Null
  /\ Get(secondTrain).display_order = Get(prevRank) + 1

-----------------------------------------------------------------------------
(* Express classification *)

\* pat occurs in str at some position
OccursIn(pat, str) ==
  \E i \in 1..Len(str) :
    \A j \in 1..Len(pat) : i + j - 1 <= Len(str) /\ str[i + j - 1] = pat[j]

\* C23: the prediction made of a record is marked express exactly when the
\* route_id of the record is "4" or "6" and its trip_id contains "_X" or
\* "EXPRESS"; the record at wait 50 yields one prediction of rank 0
C23_ExpressIffRouteAndMarker ==
  expressResult # Null =>
    /\ Len(Get(expressResult)) = 1
    /\ LET p == Get(expressResult)[1]
       IN /\ p.display_order = 0
          /\ p.time = 50
          /\ p.route_id = expressRoute
          /\ p.trip_id = expressTrip
          /\ p.is_express \in BOOLEAN
          /\ p.is_express <=>
               /\ expressRoute \in {"4", "6"}
               /\ \/ OccursIn(<<"_", "X">>, expressTrip)
                  \/ OccursIn(<<"E", "X", "P", "R", "E", "S", "S">>, expressTrip)

\* the record of route 6 with trip id t1_EXPRESS: one prediction, marked express
C23_Witness ==
  /\ expressResult # Null
  /\ expressRoute = "6"
  /\ expressTrip = <<"t", "1", "_", "E", "X", "P", "R", "E", "S", "S">>
  /\ Len(Get(expressResult)) = 1
  /\ Get(expressResult)[1].is_express

-----------------------------------------------------------------------------
(* Decompression *)

\* the day type the format gives a day code
DayTypeOfCode(code) ==
  CASE code = "w" -> "weekday"
    [] code = "s" -> "saturday"
    [] code = "u" -> "sunday"
    [] OTHER -> code

\* the record a compacted tuple stands for
RecordOfTuple(names, entry) ==
  [route_id |-> entry[1],
   direction_id |-> entry[2],
   long_name |-> IF entry[3] \in 0..(Len(names) - 1) THEN names[entry[3] + 1]
                 ELSE Undefined,
   departure_time |-> entry[4],
   trip_id |-> <<>>,
   day_type |-> DayTypeOfCode(entry[5])]

\* C24: decompression makes of every tuple of every stop one record, in the
\* order of the tuples: the day codes w, s, u become weekday, saturday,
\* sunday, any other day code is the day type of the record unchanged, the
\* destination name is the entry of the name table at the index of the tuple,
\* and the trip id is the empty string
C24_DecompressionFaithful ==
  decompressedOut # Null =>
    LET out == Get(decompressedOut)
        data == compressedIn.data
    IN /\ DOMAIN out = DOMAIN data
       /\ \A stopId \in DOMAIN data :
            /\ Len(out[stopId]) = Len(data[stopId])
            /\ \A i \in 1..Len(data[stopId]) :
                 out[stopId][i] = RecordOfTuple(compressedIn.names, data[stopId][i])

-----------------------------------------------------------------------------
(* Blink animation *)

Running == { i \in 1..Len(animations) : animations[i].isRunning }

Ended(anim) == anim.stopped \/ anim.completions > 0

\* C29: the renderer has at most one running blink animation, and holds it;
\* an animation is created only at the end of a render whose first wait is
\* above 20 and at most 30, while no animation is running, and is started
\* once; it ends only by a frame at or after its duration, which invokes
\* onComplete once, or by
\* stop(), which leaves no frame outstanding; once ended it draws no frame,
\* invokes onComplete no more and does not run again
C29_OneBlinkAnimation ==
  /\ [](\A i \in 1..Len(animations) :
          LET anim == animations[i]
          IN /\ Cardinality(Running) <= 1
             /\ anim.isRunning => blinkAnimation = Some(i)
             /\ anim.starts = 1
             /\ anim.completions <= 1
             /\ ~anim.isRunning <=> Ended(anim)
             /\ ~(anim.stopped /\ anim.completions > 0)
             /\ anim.completions = 1 =>
                  anim.endedAt # Null /\ Get(anim.endedAt) >= duration
             /\ anim.stopped => anim.animationId # "pending")
  /\ [][/\ Len(animations') > Len(animations) =>
            /\ Running = {}
            /\ Len(animations') = Len(animations) + 1
            /\ \E k \in 1..Len(renders) :
                 /\ renders' = RemoveAt(renders, k)
                 /\ renders[k].firstWait > 20
                 /\ renders[k].firstWait <= 30
        /\ \A i \in 1..Len(animations) :
             Ended(animations[i]) =>
               /\ animations'[i].frames = animations[i].frames
               /\ animations'[i].completions = animations[i].completions
               /\ ~animations'[i].isRunning]_vars

\* a render whose first wait is in 21..30 ended while the first animation
\* ran and started nothing; that animation was stopped by clear() after two
\* frames, and the animation created after it completed at its duration
C29_Witness ==
  /\ Len(animations) = 2
  /\ animations[1].declined
  /\ animations[1].stopped
  /\ animations[1].frames >= 2
  /\ animations[2].completions = 1
  /\ blinkAnimation = Null

=============================================================================
